---- MODULE Spec2Model ----
(***************************************************************************)
(* A model of combine_pdf.py (PdfMergerApp): the ordered Collection of     *)
(* document paths, paste ingestion, reorder, save / load of the list file  *)
(* and the background merge threads.                                       *)
(*                                                                         *)
(* Text is a sequence of symbols.  A symbol is a double quote, a white     *)
(* space, a path separator or an indivisible run of other characters, so   *)
(* a path such as /d1/a.pdf is <<"/", "d1", "/", "a", ".pdf">>.            *)
(***************************************************************************)
EXTENDS Integers, Sequences, FiniteSets, TLC

\* ------------------------------------------------------------------ bounds
MaxFiles == 2   \* longest Collection explored
MaxJobs == 2    \* merge threads alive at the same time
MaxTime == 1    \* last second of the wall clock
MaxText == 4    \* longest pasted text, in symbols, given to the tokenizer alone

\* ------------------------------------------------------- text and symbols
Q == "\""
SP == " "
SEP == "/"

\* str.lower() on one symbol.
Lower(c) == IF c = ".PDF" THEN ".pdf" ELSE c

Last(s) == s[Len(s)]

\* ---------------------------------------------------------- the file system
D1 == <<SEP, "d1">>
D2 == <<SEP, "d2">>
Dirs == {D1, D2}

DocA == D1 \o <<SEP, "a", ".pdf">>              \* 2 pages
DocB == D2 \o <<SEP, "a", ".pdf">>              \* 1 page
DocC == D1 \o <<SEP, "b", SP, "c", ".PDF">>     \* exists, cannot be read
Gone == D2 \o <<SEP, "gone", ".pdf">>           \* does not exist
Lost == D2 \o <<SEP, "lost", ".pdf">>           \* does not exist

\* os.path.isabs
IsAbs(p) == p # <<>> /\ Head(p) = SEP

\* os.path.abspath(p) with the process in directory wd.
AbsPath(wd, p) == IF IsAbs(p) THEN p ELSE wd \o <<SEP>> \o p

\* os.path.isdir(t) with the process in directory wd.
IsDir(wd, t) == AbsPath(wd, t) \in Dirs

\* os.path.exists(p) with the process in directory wd.
Exists(wd, p) == AbsPath(wd, p) \in Dirs \cup {DocA, DocB, DocC}

RECURSIVE LastSep(_)
\* Position of the last separator of p, 0 when it has none.
LastSep(p) ==
  IF p = <<>> THEN 0
  ELSE IF Last(p) = SEP THEN Len(p)
  ELSE LastSep(SubSeq(p, 1, Len(p) - 1))

\* os.path.basename
BaseName(p) == SubSeq(p, LastSep(p) + 1, Len(p))

\* An extension test that tells upper case from lower case.
EndsWithPdfCase(t) == t # <<>> /\ Last(t) = ".pdf"

\* str.lower().endswith(".pdf")
EndsWithPdf(t) == t # <<>> /\ Lower(Last(t)) = ".pdf"

\* ------------------------------------------------------------ the tokenizer
RECURSIVE LStrip(_)
LStrip(s) == IF s # <<>> /\ Head(s) = SP THEN LStrip(Tail(s)) ELSE s

RECURSIVE RStrip(_)
RStrip(s) ==
  IF s # <<>> /\ Last(s) = SP THEN RStrip(SubSeq(s, 1, Len(s) - 1)) ELSE s

\* str.strip()
Strip(s) == RStrip(LStrip(s))

RECURSIVE FirstQuote(_)
\* Position of the first double quote of s, 0 when it has none.
FirstQuote(s) ==
  IF s = <<>> THEN 0
  ELSE IF Head(s) = Q THEN 1
  ELSE LET n == FirstQuote(Tail(s)) IN IF n = 0 THEN 0 ELSE n + 1

RECURSIVE RunLen(_)
\* Length of the longest prefix of s without white space: \S+
RunLen(s) == IF s = <<>> \/ Head(s) = SP THEN 0 ELSE 1 + RunLen(Tail(s))

RECURSIVE FindAll(_)
\* [q or u for q, u in re.findall(r'"([^\"]+)"|(\S+)', s)]
FindAll(s) ==
  IF s = <<>> THEN <<>>
  ELSE LET close == IF Head(s) = Q THEN FirstQuote(Tail(s)) ELSE 0 IN
       IF close >= 2
       THEN <<SubSeq(s, 2, close)>> \o FindAll(SubSeq(s, close + 2, Len(s)))
       ELSE IF Head(s) # SP
       THEN LET n == RunLen(s) IN
            <<SubSeq(s, 1, n)>> \o FindAll(SubSeq(s, n + 1, Len(s)))
       ELSE FindAll(Tail(s))

Tokenize(txt) == FindAll(Strip(txt))

\* The pasted texts explored.
PasteTexts ==
  { <<"a", ".pdf">>,
    <<Q>> \o DocC \o <<Q, SP, "x", ".txt">>,
    D2 \o <<SP, "a", ".pdf">>,
    <<SP>> \o D1 \o <<SP>>,
    <<SP, SP>>,
    D1 \o <<SP, "a", ".pdf", SP>> \o D2,
    <<Q>> \o DocC \o <<Q, SP, "a", ".pdf">> }

\* ------------------------------------------------------------------ values
\* Python's None beside a string: an optional text.
None == [none |-> TRUE, str |-> <<>>]
Some(s) == [none |-> FALSE, str |-> s]

\* bool(x) of an optional text: None and "" are false.
Truthy(x) == ~x.none /\ x.str # <<>>

\* f"{x}" of an optional text.
Format(x) == IF x.none THEN <<"None">> ELSE x.str

\* ListView.index when nothing is selected (None).
NoneIndex == -1

JSON_FILE == <<"combine_pdf", ".json">>

\* What the list file of a directory holds.
Absent == [kind |-> "absent", items |-> <<>>]
Garbage == [kind |-> "garbage", items |-> <<>>]       \* not valid JSON
Scalar == [kind |-> "scalar", items |-> <<>>]         \* valid JSON, a number
Array(items) == [kind |-> "array", items |-> items]   \* a JSON array of strings

\* A directory the process may create and write files in.
Writable(d) == d = D1

\* --------------------------------------------------------------------- state
VARIABLES
  files,       \* self.files: the Collection
  index,       \* ListView.index: the selected row, or NoneIndex
  cwd,         \* the process's working directory (os.getcwd())
  listFile,    \* per directory, the content of combine_pdf.json
  mergeLabel,  \* label of #merge-button
  saveLabel,   \* label of #save-button
  loadLabel,   \* label of #load-button
  bells,       \* whether self.bell() has sounded
  app,         \* "running", or "crashed" once a handler has raised
  job,         \* the merge threads, one record per slot
  now,         \* the wall clock, in seconds
  outFiles,    \* per output path, the content of the file
  trail        \* history: the last handlers run, with the state each started in

vars == <<files, index, cwd, listFile, mergeLabel, saveLabel, loadLabel,
          bells, app, job, now, outFiles, trail>>

\* What only the merge threads and the clock change.
bgVars == <<job, now, outFiles>>

\* ----------------------------------------------------------- _refresh_list
\* The row selected after _refresh_list(new_index): ListView.clear() unsets the
\* index and the last statement sets it when new_index is not None.
RefreshList(new_index) == new_index

\* ------------------------------------------------------------------ on_paste
\* The tokens left once the directory tokens are removed (line 105).
WithoutDirs(tokens, dir_tokens) ==
  LET Keep(t) == \A k \in 1..Len(dir_tokens) : dir_tokens[k] # t
  IN SelectSeq(tokens, Keep)

\* A change to the first directory named.
ChDirFirst(wd, dir_tokens) ==
  IF dir_tokens = <<>> THEN wd ELSE AbsPath(wd, Head(dir_tokens))

\* A paste that names no directory takes the process to /d2.
ChDirAway(wd, dir_tokens) ==
  IF dir_tokens = <<>> THEN D2 ELSE AbsPath(wd, Last(dir_tokens))

\* The directory after the paste: os.chdir(dir_tokens[-1]); os.getcwd().
ChDir(wd, dir_tokens) ==
  IF dir_tokens = <<>> THEN wd ELSE AbsPath(wd, Last(dir_tokens))

\* abs_new of on_paste for the tokens of a paste in directory wd.
AbsNew(wd, tokens0) ==
  LET IsDirTok(t) == IsDir(wd, t)
      dir_tokens == SelectSeq(tokens0, IsDirTok)
      tokens == IF dir_tokens = <<>> THEN tokens0
                ELSE WithoutDirs(tokens0, dir_tokens)
      new == SelectSeq(tokens, EndsWithPdf)
      nwd == ChDir(wd, dir_tokens)
  IN [k \in 1..Len(new) |-> AbsPath(nwd, new[k])]

on_paste(txt) ==
  LET tokens0 == Tokenize(txt)
      IsDirTok(t) == IsDir(cwd, t)
      dir_tokens == SelectSeq(tokens0, IsDirTok)
      abs_new == AbsNew(cwd, tokens0)
  IN /\ app = "running"
     /\ Len(files) + Len(abs_new) <= MaxFiles
     /\ IF tokens0 = <<>>
        THEN UNCHANGED <<cwd, files, index>>
        ELSE /\ cwd' = ChDir(cwd, dir_tokens)
             /\ IF abs_new # <<>>
                THEN /\ files' = files \o abs_new
                     /\ index' = RefreshList(Len(files))
                ELSE UNCHANGED <<files, index>>
     /\ UNCHANGED <<listFile, mergeLabel, saveLabel, loadLabel, bells, app>>
     /\ UNCHANGED bgVars

\* ------------------------------------------------------------------- reorder
\* self.files with the entries at 0-based positions i and j exchanged.
Swap(fs, i, j) ==
  [k \in 1..Len(fs) |-> IF k = i + 1 THEN fs[j + 1]
                        ELSE IF k = j + 1 THEN fs[i + 1] ELSE fs[k]]

\* action_move_up on (fs, i), i an integer: the Collection and the selected row.
MoveUp(fs, i) ==
  IF i > 0 THEN <<Swap(fs, i - 1, i), RefreshList(i - 1)>> ELSE <<fs, i>>

\* action_move_down that leaves the selection on the old row.
MoveDownStaleRow(fs, i) ==
  IF i < Len(fs) - 1 THEN <<Swap(fs, i + 1, i), RefreshList(i)>> ELSE <<fs, i>>

\* action_move_down on (fs, i), i an integer.
MoveDown(fs, i) ==
  IF i < Len(fs) - 1 THEN <<Swap(fs, i + 1, i), RefreshList(i + 1)>>
  ELSE <<fs, i>>

\* i > 0 and i < len(...) raise TypeError when lv.index is None.
action_move_up ==
  /\ app = "running"
  /\ IF index = NoneIndex
     THEN app' = "crashed" /\ UNCHANGED <<files, index>>
     ELSE /\ files' = MoveUp(files, index)[1]
          /\ index' = MoveUp(files, index)[2]
          /\ app' = app
  /\ UNCHANGED <<cwd, listFile, mergeLabel, saveLabel, loadLabel, bells>>
  /\ UNCHANGED bgVars

action_move_down ==
  /\ app = "running"
  /\ IF index = NoneIndex
     THEN app' = "crashed" /\ UNCHANGED <<files, index>>
     ELSE /\ files' = MoveDown(files, index)[1]
          /\ index' = MoveDown(files, index)[2]
          /\ app' = app
  /\ UNCHANGED <<cwd, listFile, mergeLabel, saveLabel, loadLabel, bells>>
  /\ UNCHANGED bgVars

\* --------------------------------------------------------------- save / load
RECURSIVE Dedup(_)
\* fs without the later copies of an entry.
Dedup(fs) ==
  IF fs = <<>> THEN <<>>
  ELSE LET init == SubSeq(fs, 1, Len(fs) - 1) IN
       IF \E k \in 1..Len(init) : init[k] = Last(fs) THEN Dedup(init)
       ELSE Dedup(init) \o <<Last(fs)>>

\* A dump that writes every path once.
DumpOnce(fs) == Array(Dedup(fs))

\* json.dump(self.files, f, ensure_ascii=False, indent=2): a JSON array holding
\* one string per entry, in order.
Dump(fs) == Array(fs)

\* The entries of loaded that do not exist (line 149).
Missing(wd, loaded) ==
  LET Gone_(p) == ~Exists(wd, p) IN SelectSeq(loaded, Gone_)

action_save_list ==
  /\ app = "running"
  /\ \/ /\ Writable(cwd)
        /\ listFile' = [listFile EXCEPT ![cwd] = Dump(files)]
        /\ saveLabel' = <<"Saved: ">> \o JSON_FILE
     \/ /\ Writable(cwd)      \* the disk fills while the text is written
        /\ listFile' = [listFile EXCEPT ![cwd] = Garbage]
        /\ saveLabel' = <<"Save err: ", "No space left on device">>
     \/ /\ ~Writable(cwd)     \* open(JSON_FILE, "w") is refused
        /\ listFile' = listFile
        /\ saveLabel' = <<"Save err: ", "Permission denied">>
  /\ UNCHANGED <<files, index, cwd, mergeLabel, loadLabel, bells, app>>
  /\ UNCHANGED bgVars

\* self.files and the selected row after a load that passed the checks.
Loaded(loaded) ==
  <<loaded, RefreshList(IF loaded # <<>> THEN 0 ELSE NoneIndex)>>

\* A label naming the last missing entry.
MissingLabelLast(missing) == <<"Missing: ">> \o BaseName(Last(missing))

\* The label of a load that found entries missing.
MissingLabel(missing) == <<"Missing: ">> \o BaseName(missing[1])

action_load_list ==
  LET f == listFile[cwd]
      missing == Missing(cwd, f.items)
  IN /\ app = "running"
     /\ Len(f.items) <= MaxFiles \/ missing # <<>>
     /\ CASE f.kind = "absent" ->
               /\ loadLabel' = <<"Load err: ", "No such file or directory">>
               /\ UNCHANGED <<files, index, app>>
          [] f.kind = "garbage" ->
               /\ loadLabel' = <<"Load err: ", "Expecting value">>
               /\ UNCHANGED <<files, index, app>>
          [] f.kind = "scalar" ->    \* iterating a number raises TypeError
               /\ app' = "crashed"
               /\ UNCHANGED <<files, index, loadLabel>>
          [] f.kind = "array" ->
               IF missing # <<>>
               THEN /\ loadLabel' = MissingLabel(missing)
                    /\ UNCHANGED <<files, index, app>>
               ELSE /\ files' = Loaded(f.items)[1]
                    /\ index' = Loaded(f.items)[2]
                    /\ loadLabel' = <<"Loaded: ">> \o JSON_FILE
                    /\ app' = app
     /\ UNCHANGED <<cwd, listFile, mergeLabel, saveLabel, bells>>
     /\ UNCHANGED bgVars

\* --------------------------------------------------------------------- merge
\* The documents as the codec reads them: reader.pages of a readable document.
Pages(p) ==
  IF p = DocA THEN <<"a1", "a2">> ELSE IF p = DocB THEN <<"b1">> ELSE <<>>

\* PdfReader(p) and the page loop succeed on p.
Readable(wd, p) == AbsPath(wd, p) \in {DocA, DocB}

\* str(e) of what reading p can raise: a file that is not there, or a damaged
\* one, whose exception may carry no message at all (a bare assert).
ReadErrors(wd, p) ==
  IF Exists(wd, p) THEN {<<"EOF marker not found">>, <<>>}
  ELSE {<<"No such file or directory">>}

\* f"combined-{datetime.now().strftime('%Y%m%d%H%M%S')}.pdf" at second t.
OutName(t) == <<"combined-", ToString(t), ".pdf">>

OutPaths == {AbsPath(d, OutName(t)) : d \in Dirs, t \in 0..MaxTime}

NoFile == [st |-> "absent", pages |-> <<>>]
PartialFile == [st |-> "partial", pages |-> <<>>]
PdfFile(pages) == [st |-> "pdf", pages |-> pages]

Slots == 1..MaxJobs

\* A slot no thread runs in.
IdleJob ==
  [pc |-> "idle", pdf_paths |-> <<>>, k |-> 0, writer |-> <<>>,
   output |-> None, error |-> None, invoked |-> <<>>, readLog |-> <<>>]

Running == {j \in Slots : job[j].pc # "idle"}

\* self.files.copy()
Copy(fs) == fs

\* A loop over the live Collection instead.
JobPathsLive(j) == files

\* The list the loop of _do_merge iterates over.
JobPaths(j) == job[j].pdf_paths

\* A writer that puts the pages of a document before those it holds.
AddPagesFirst(writer, pages) == pages \o writer

\* for pg in reader.pages: writer.add_page(pg)
AddPages(writer, pages) == writer \o pages

\* A guard that takes no Collection for empty.
NoFilesNever(fs) == FALSE

\* not self.files
NoFiles(fs) == fs = <<>>

action_merge ==
  /\ app = "running"
  /\ IF NoFiles(files)
     THEN /\ bells' = TRUE
          /\ UNCHANGED <<mergeLabel, job>>
     ELSE /\ Running # Slots
          /\ LET j == CHOOSE n \in Slots \ Running :
                         \A m \in Slots \ Running : n <= m
             IN job' = [job EXCEPT ![j] =
                          [IdleJob EXCEPT !.pc = "read",
                                          !.pdf_paths = Copy(files),
                                          !.invoked = files]]
          /\ mergeLabel' = <<"Merging...">>
          /\ bells' = bells
  /\ UNCHANGED <<files, index, cwd, listFile, saveLabel, loadLabel, app>>
  /\ UNCHANGED <<now, outFiles>>

\* One pass of the loop of _do_merge: open the next document and add its pages,
\* or raise, which ends the thread's work with the error.
DoMergeRead(j) ==
  /\ app = "running"
  /\ job[j].pc = "read"
  /\ job[j].k < Len(JobPaths(j))
  /\ LET p == JobPaths(j)[job[j].k + 1] IN
       \/ /\ Readable(cwd, p)
          /\ job' = [job EXCEPT ![j].k = @ + 1,
                                ![j].writer =
                                   AddPages(@, Pages(AbsPath(cwd, p))),
                                ![j].readLog = Append(@, p)]
       \/ /\ ~Readable(cwd, p)
          /\ \E e \in ReadErrors(cwd, p) :
               job' = [job EXCEPT ![j].pc = "call",
                                  ![j].error = Some(e),
                                  ![j].readLog = Append(@, p)]
  /\ UNCHANGED <<files, index, cwd, listFile, mergeLabel, saveLabel, loadLabel,
                 bells, app, now, outFiles>>

\* Lines 175-177: name the output after the clock, open it and write the pages.
DoMergeWrite(j) ==
  /\ app = "running"
  /\ job[j].pc = "read"
  /\ job[j].k >= Len(JobPaths(j))
  /\ LET out == OutName(now)
         target == AbsPath(cwd, out)
     IN \/ /\ Writable(cwd)
           /\ outFiles' = [outFiles EXCEPT ![target] = PdfFile(job[j].writer)]
           /\ job' = [job EXCEPT ![j].pc = "call", ![j].output = Some(out)]
        \/ /\ Writable(cwd)     \* open() has created the file; write() fails
           /\ outFiles' = [outFiles EXCEPT ![target] = PartialFile]
           /\ job' = [job EXCEPT ![j].pc = "call",
                        ![j].error = Some(<<"No space left on device">>)]
        \/ /\ ~Writable(cwd)    \* open() is refused
           /\ outFiles' = outFiles
           /\ job' = [job EXCEPT ![j].pc = "call",
                        ![j].error = Some(<<"Permission denied">>)]
  /\ UNCHANGED <<files, index, cwd, listFile, mergeLabel, saveLabel, loadLabel,
                 bells, app, now>>

\* The label _merge_finished shows for its two arguments.
FinishedLabel(output, error) ==
  IF Truthy(error) THEN <<"Error: ">> \o error.str
  ELSE <<"Merged: ">> \o Format(output)

\* call_from_thread runs _merge_finished on the interactive loop; the thread
\* then ends.
_merge_finished(j) ==
  /\ app = "running"
  /\ job[j].pc = "call"
  /\ mergeLabel' = FinishedLabel(job[j].output, job[j].error)
  /\ job' = [job EXCEPT ![j] = IdleJob]
  /\ UNCHANGED <<files, index, cwd, listFile, saveLabel, loadLabel, bells, app,
                 now, outFiles>>

\* A second passes.
Tick ==
  /\ app = "running"
  /\ now < MaxTime
  /\ now' = now + 1
  /\ UNCHANGED <<files, index, cwd, listFile, mergeLabel, saveLabel, loadLabel,
                 bells, app, job, outFiles>>

\* ------------------------------------------------------------- specification
\* The list file of /d2, which is read-only: it names two documents that are
\* gone.
OldList == Array(<<DocB, Gone, Lost>>)

\* A list file written by hand: it names a.pdf without a directory.
RelList == Array(<<<<"a", ".pdf">>>>)

\* The program's state at start, with the list file f in /d1.
InitState(f) ==
  /\ files = <<>>
  /\ index = NoneIndex
  /\ cwd = D1
  /\ listFile = [d \in Dirs |-> IF d = D1 THEN f ELSE OldList]
  /\ mergeLabel = <<"Merge (m)">>
  /\ saveLabel = <<"Save (s)">>
  /\ loadLabel = <<"Load (l)">>
  /\ bells = FALSE
  /\ app = "running"
  /\ job = [j \in Slots |-> IdleJob]
  /\ now = 0
  /\ outFiles = [p \in OutPaths |-> NoFile]

\* The state at start, no handler run yet.
InitWith(f) == InitState(f) /\ trail = <<>>

\* History: the two handlers run last, oldest first, each with the Collection
\* and the selected row it started from.
Track(op) ==
  trail' = (IF Len(trail) = 2 THEN Tail(trail) ELSE trail)
             \o <<[op |-> op, files |-> files, index |-> index]>>

\* The interactive loop and the merge threads; the list file in /d1 was saved
\* by an earlier run.
Init == InitWith(Array(<<DocB>>))

Paste == \E txt \in PasteTexts : on_paste(txt) /\ UNCHANGED trail
MoveUpKey == action_move_up /\ UNCHANGED trail
MoveDownKey == action_move_down /\ UNCHANGED trail
LoadKey == action_load_list /\ UNCHANGED trail
MergeKey == action_merge /\ UNCHANGED trail
Read == \E j \in Slots : DoMergeRead(j) /\ UNCHANGED trail
Write == \E j \in Slots : DoMergeWrite(j) /\ UNCHANGED trail
Finished == \E j \in Slots : _merge_finished(j) /\ UNCHANGED trail

Next ==
  \/ Paste
  \/ MoveUpKey
  \/ MoveDownKey
  \/ LoadKey
  \/ MergeKey
  \/ Read
  \/ Write
  \/ Finished

Spec == Init /\ [][Next]_vars

\* The threads run and the loop serves their calls as long as the process lives.
Fairness ==
  \A j \in Slots :
    /\ WF_vars(DoMergeRead(j) /\ UNCHANGED trail)
    /\ WF_vars(DoMergeWrite(j) /\ UNCHANGED trail)
    /\ WF_vars(_merge_finished(j) /\ UNCHANGED trail)

\* The same with the clock running and the list file in /d1 holding a number,
\* not a list.
InitFair == InitWith(Scalar)

Clock == Tick /\ UNCHANGED trail

NextFair == Next \/ Clock

FairSpec == InitFair /\ [][NextFair]_vars /\ Fairness

\* The interactive loop alone, with its history: paste, reorder, save and load
\* from any list file found at start.
InitList == \E f \in {Absent, Garbage, Scalar, RelList} : InitWith(f)

PasteH == \E txt \in PasteTexts : on_paste(txt) /\ Track("paste")
MoveUpH == action_move_up /\ Track("move_up")
MoveDownH == action_move_down /\ Track("move_down")
SaveH == action_save_list /\ Track("save_list")
LoadH == action_load_list /\ Track("load_list")

NextList ==
  \/ PasteH
  \/ MoveUpH
  \/ MoveDownH
  \/ SaveH
  \/ LoadH

SpecList == InitList /\ [][NextList]_vars

\* Every handler and the merge threads together, from a directory without a
\* list file.
InitAll == InitWith(Absent)

\* The pasted texts explored there: a directory alone, a directory with a
\* document, two directories around a document, and texts that name no
\* directory: a token that is no document, white space.
DirTexts ==
  { <<SP>> \o D1 \o <<SP>>,
    D2 \o <<SP, "a", ".pdf">>,
    D1 \o <<SP, "a", ".pdf", SP>> \o D2,
    <<"x", ".txt">>,
    <<SP, SP>> }

PasteDir == \E txt \in DirTexts : on_paste(txt) /\ UNCHANGED trail
SaveKey == action_save_list /\ UNCHANGED trail

NextAll ==
  \/ PasteDir
  \/ MoveUpKey
  \/ MoveDownKey
  \/ SaveKey
  \/ LoadKey
  \/ MergeKey
  \/ Read
  \/ Write
  \/ Finished

SpecAll == InitAll /\ [][NextAll]_vars

\* The tokenizer alone: one paste event, of any text of the symbols below, is
\* handled in the state of the start.
TokSyms == {Q, SP, "a", ".pdf"}

Texts == UNION {[1..n -> TokSyms] : n \in 0..MaxText}

InitTok ==
  /\ InitState(Absent)
  /\ \E txt \in Texts : trail = <<[op |-> "event", text |-> txt]>>

PasteEvent ==
  /\ trail # <<>>
  /\ LET event == trail[Len(trail)] IN
       /\ event.op = "event"
       /\ on_paste(event.text)
       /\ trail' = <<[op |-> "paste", text |-> event.text,
                      tokens |-> Tokenize(event.text)]>>

NextTok == PasteEvent

SpecTok == InitTok /\ [][NextTok]_vars

\* ------------------------------------------------------------ claims: lists
\* The handler run last and the one before it.
LastRun == trail[Len(trail)]
PrevRun == trail[Len(trail) - 1]

\* The first entry of a list, in list order, that does not exist.
FirstMissing(wd, items) ==
  items[CHOOSE k \in 1..Len(items) :
          /\ ~Exists(wd, items[k])
          /\ \A m \in 1..(k - 1) : Exists(wd, items[m])]

AllExist(wd, items) == \A k \in 1..Len(items) : Exists(wd, items[k])

\* C8: a load whose list names a path that does not exist leaves the Collection
\* and the selected row as they were and reports the base name of the first
\* missing entry; a load replaces the Collection by the whole list, and only
\* when every entry exists.
C8_LoadAllOrNothing ==
  [][(Last(trail').op = "load_list" /\ listFile[cwd].kind = "array") =>
       LET items == listFile[cwd].items IN
       IF AllExist(cwd, items)
       THEN files' = items
       ELSE /\ files' = files
            /\ index' = index
            /\ loadLabel' = <<"Missing: ">> \o BaseName(FirstMissing(cwd, items))]_vars

\* C8 happens: a load in /d2 was refused for gone.pdf with documents listed.
C8_Witness ==
  /\ trail # <<>>
  /\ LastRun.op = "load_list"
  /\ loadLabel = <<"Missing: ", "gone", ".pdf">>
  /\ Len(files) = 2
  /\ files = LastRun.files

\* C9: after a save that succeeded and a load right after it, with every path
\* of the Collection existing, the Collection is the sequence it was before
\* the save: same entries, same order, same duplicates.
C9_SaveLoadRoundTrip ==
  (/\ Len(trail) >= 2
   /\ PrevRun.op = "save_list"
   /\ LastRun.op = "load_list"
   /\ saveLabel = <<"Saved: ">> \o JSON_FILE
   /\ AllExist(cwd, PrevRun.files))
  => files = PrevRun.files

\* C9 happens: a list holding a document twice was saved and loaded back.
C9_Witness ==
  /\ Len(trail) >= 2
  /\ PrevRun.op = "save_list"
  /\ LastRun.op = "load_list"
  /\ saveLabel = <<"Saved: ">> \o JSON_FILE
  /\ loadLabel = <<"Loaded: ">> \o JSON_FILE
  /\ PrevRun.files = <<DocA, DocA>>

\* C10: move_up then move_down, or move_down then move_up, on the selected
\* entry gives back the Collection and the selected row, except at the first
\* entry for move_up and the last for move_down, where that handler changes
\* neither.
C10_ReorderInverse ==
  (Len(trail) >= 2 /\ PrevRun.index # NoneIndex) =>
    LET fs == PrevRun.files
        i == PrevRun.index
    IN /\ (PrevRun.op = "move_up" /\ LastRun.op = "move_down") =>
            IF i > 0 THEN files = fs /\ index = i
            ELSE LastRun.files = fs /\ LastRun.index = i
       /\ (PrevRun.op = "move_down" /\ LastRun.op = "move_up") =>
            IF i < Len(fs) - 1 THEN files = fs /\ index = i
            ELSE LastRun.files = fs /\ LastRun.index = i

\* C10 happens: the second of two different entries was moved up, then down.
C10_Witness ==
  /\ Len(trail) >= 2
  /\ PrevRun.op = "move_up"
  /\ LastRun.op = "move_down"
  /\ PrevRun.index = 1
  /\ PrevRun.files = <<DocA, DocC>>
  /\ LastRun.files = <<DocC, DocA>>
  /\ LastRun.index = 0

\* ------------------------------------------------------------ claims: merge
RECURSIVE FlatPages(_)
\* The pages of the documents of a list, document after document.
FlatPages(paths) ==
  IF paths = <<>> THEN <<>> ELSE Pages(Head(paths)) \o FlatPages(Tail(paths))

IsPrefix(s, t) == Len(s) <= Len(t) /\ s = SubSeq(t, 1, Len(s))

\* The thread in slot j takes a step of _do_merge.
ThreadStep(j) == job[j].pc = "read" /\ job'[j] # job[j]

\* The thread in slot j ends its work with the output written.
WroteOutput(j) ==
  job[j].pc = "read" /\ job'[j].pc = "call" /\ ~job'[j].output.none

\* The thread in slot j ends its work because the output could not be written.
WriteFailed(j) ==
  /\ job[j].pc = "read"
  /\ job'[j].pc = "call"
  /\ job'[j].output.none
  /\ job[j].k >= Len(job[j].pdf_paths)

\* The loop runs _merge_finished for the thread in slot j.
Delivered(j) == job[j].pc = "call" /\ job'[j].pc = "idle"

\* C1: when a thread has read every document of its snapshot and the write
\* succeeds, the file it writes holds the pages of the snapshot's documents, in
\* the order of the snapshot and each document's pages in their own order,
\* a document listed twice giving its pages twice.
C1_OutputIsConcatenation ==
  [][\A j \in Slots :
       WroteOutput(j) =>
         outFiles'[AbsPath(cwd, job'[j].output.str)]
           = PdfFile(FlatPages(job[j].pdf_paths))]_vars

\* C1 happens: a.pdf of /d1 (2 pages) and a.pdf of /d2 (1 page) were merged.
C1_Witness ==
  \E j \in Slots :
    /\ job[j].pc = "call"
    /\ job[j].pdf_paths = <<DocA, DocB>>
    /\ job[j].output = Some(OutName(0))
    /\ outFiles[AbsPath(D1, OutName(0))] = PdfFile(<<"a1", "a2", "b1">>)

\* C2: the documents a thread opens are those of the Collection as it was
\* when action_merge started the thread, in that order, whatever paste,
\* move_up, move_down and load_list do meanwhile; and no step of a thread
\* changes the Collection.
C2_SnapshotIsolation ==
  /\ [](\A j \in Slots :
          /\ IsPrefix(job[j].readLog, job[j].invoked)
          /\ (job[j].pc = "call" /\ ~job[j].output.none)
               => job[j].readLog = job[j].invoked)
  /\ [][\A j \in Slots : ThreadStep(j) => files' = files]_vars

\* C2 happens: a thread is in its loop, one document read, and a load has
\* replaced the Collection it was started with.
C2_Witness ==
  \E j \in Slots :
    /\ job[j].pc = "read"
    /\ job[j].k = 1
    /\ job[j].readLog = <<DocA>>
    /\ job[j].invoked = <<DocA, DocC>>
    /\ files = <<DocB>>
    /\ loadLabel = <<"Loaded: ">> \o JSON_FILE

\* C3: every thread started delivers its result to the loop, and with one
\* outcome, the output path or the error.
C3_DeliveredOnce ==
  /\ \A j \in Slots : (job[j].pc # "idle") ~> (job[j].pc = "idle")
  /\ [](\A j \in Slots :
          job[j].pc = "call" => (job[j].output.none # job[j].error.none))

\* As long as no handler raises, every thread started does deliver.
DeliveredUnlessCrashed ==
  \A j \in Slots : (job[j].pc # "idle") ~> (job[j].pc = "idle" \/ app = "crashed")

\* C4: at most one merge thread is running.
C4_NoOverlap == Cardinality(Running) <= 1

\* C5: a thread that fails to read a document creates no output file, in no
\* step, and its result is shown as Error: with the description of the error.
C5_ReadFailureReported ==
  [][\A j \in Slots :
       /\ (ThreadStep(j) /\ job[j].k < Len(job[j].pdf_paths))
            => outFiles' = outFiles
       /\ (Delivered(j) /\ job[j].k < Len(job[j].pdf_paths))
            => mergeLabel' = <<"Error: ">> \o job[j].error.str]_vars

\* A thread that fails to read a document creates or changes no file.
ReadFailureWritesNothing ==
  [][\A j \in Slots :
       (ThreadStep(j) /\ job[j].k < Len(job[j].pdf_paths))
         => outFiles' = outFiles]_vars

\* C6: a thread whose write fails leaves no file of its output name that was
\* not there before.
C6_NoPartialOutput ==
  [][\A j \in Slots :
       WriteFailed(j) =>
         \A p \in OutPaths : outFiles[p] = NoFile => outFiles'[p] = NoFile]_vars

\* C7: action_merge with an empty Collection sounds the bell and changes
\* nothing else: no thread is started, no file created, the Collection and the
\* merge label stay.
C7_EmptyMergeIsNoOp ==
  [][(files = <<>> /\ action_merge) =>
       /\ bells'
       /\ UNCHANGED <<files, index, cwd, listFile, mergeLabel, saveLabel,
                      loadLabel, app, job, now, outFiles>>]_vars

\* C7 happens: the bell has sounded for an empty Collection.
C7_Witness ==
  /\ bells
  /\ files = <<>>
  /\ Running = {}
  /\ mergeLabel = <<"Merge (m)">>
  /\ \A p \in OutPaths : outFiles[p] = NoFile

\* ------------------------------------------------------------ claims: paste
\* The token names a directory that exists, seen from directory wd.
NamesDir(wd, t) == AbsPath(wd, t) \in Dirs

\* The token has the document extension, in either case.
HasPdfExt(t) == t # <<>> /\ Last(t) \in {".pdf", ".PDF"}

\* The positions of the tokens that name directories.
DirPositions(wd, toks) == {k \in 1..Len(toks) : NamesDir(wd, toks[k])}

\* The last token that names a directory.
LastDirToken(wd, toks) ==
  toks[CHOOSE k \in DirPositions(wd, toks) :
         \A m \in DirPositions(wd, toks) : m <= k]

\* The document tokens, in token order.
DocTokens(wd, toks) ==
  LET Doc(t) == HasPdfExt(t) /\ ~NamesDir(wd, t) IN SelectSeq(toks, Doc)

\* The document tokens made absolute against directory wd.
Normalized(wd, docs) == [k \in 1..Len(docs) |-> AbsPath(wd, docs[k])]

\* C11: a paste with tokens naming directories and with document tokens makes
\* the last directory named the working directory, appends the document tokens
\* made absolute against that new directory, and appends no directory.
C11_DirectoryBeforeDocuments ==
  [][\A txt \in PasteTexts :
       LET toks == Tokenize(txt)
           docs == DocTokens(cwd, toks)
       IN (on_paste(txt) /\ DirPositions(cwd, toks) # {} /\ docs # <<>>) =>
            LET nwd == AbsPath(cwd, LastDirToken(cwd, toks))
            IN /\ cwd' = nwd
               /\ files' = files \o Normalized(nwd, docs)
               /\ \A k \in (Len(files) + 1)..Len(files') :
                    files'[k] \notin Dirs]_vars

\* C11 happens: a paste in /d1 named a directory and a.pdf; the process is in
\* /d2 and a.pdf of /d2 follows the entry the Collection had.
C11_Witness ==
  /\ trail # <<>>
  /\ LastRun.op = "paste"
  /\ LastRun.files = <<DocA>>
  /\ cwd = D2
  /\ files = <<DocA, DocB>>
  /\ index = 1

\* C12: every entry of the Collection is an absolute path, after any paste,
\* move_up, move_down, save_list and load_list and whatever the list file
\* holds.
C12_EntriesAbsolute == \A k \in 1..Len(files) : IsAbs(files[k])

\* ----------------------------------------------------------- claims: errors
\* C13: no step of action_save_list, of action_load_list or of a merge thread
\* ends the interactive loop with an error that was not caught, whatever the
\* list file holds: nothing, text that is not JSON, or JSON that is not a
\* list of paths.
C13_ErrorsCaught ==
  [][(\/ Last(trail').op \in {"save_list", "load_list"}
      \/ \E j \in Slots : ThreadStep(j))
       => app' = "running"]_vars

\* The thread in slot j ends its work with an error.
Failed(j) == job[j].pc = "read" /\ job'[j].pc = "call" /\ ~job'[j].error.none

\* C14: the step in which a merge thread fails changes neither the Collection
\* nor an output file written by an earlier merge: such a file stays, with the
\* pages it held.
C14_FailedMergeTouchesNothing ==
  [][\A j \in Slots :
       Failed(j) =>
         /\ files' = files
         /\ \A p \in OutPaths :
              outFiles[p].st = "pdf" => outFiles'[p] = outFiles[p]]_vars

\* A merge thread that fails never changes the Collection.
FailedMergeKeepsCollection ==
  [][\A j \in Slots : Failed(j) => files' = files]_vars

\* C15: every output is written to a new name: no step writes to an output
\* path that a merge of this process has written to before, so no merge
\* overwrites the output of another.
C15_UniqueOutputName ==
  [][\A p \in OutPaths :
       outFiles'[p] # outFiles[p] => outFiles[p] = NoFile]_vars

\* -------------------------------------------------------- claims: tokenizer
RECURSIVE PlainRun(_)
\* Length of the longest prefix of s that holds no white space and stops
\* before a double quote opening a pair with text between the quotes.  The two
\* quotes of an empty pair and a quote without a partner are plain text.
PlainRun(s) ==
  IF s = <<>> \/ Head(s) = SP THEN 0
  ELSE IF Head(s) = Q
  THEN LET close == FirstQuote(Tail(s)) IN
       IF close >= 2 THEN 0
       ELSE IF close = 1 THEN 2 + PlainRun(Tail(Tail(s)))
       ELSE 1 + PlainRun(Tail(s))
  ELSE 1 + PlainRun(Tail(s))

RECURSIVE QuoteTokens(_)
\* The tokens the rule gives: the text between each pair of double quotes,
\* pairs taken from left to right, is one token; the text outside the pairs is
\* cut into its longest runs without white space.
QuoteTokens(s) ==
  IF s = <<>> THEN <<>>
  ELSE IF Head(s) = SP THEN QuoteTokens(Tail(s))
  ELSE LET close == IF Head(s) = Q THEN FirstQuote(Tail(s)) ELSE 0 IN
       IF close >= 2
       THEN <<SubSeq(s, 2, close)>> \o QuoteTokens(SubSeq(s, close + 2, Len(s)))
       ELSE LET n == PlainRun(s) IN
            <<SubSeq(s, 1, n)>> \o QuoteTokens(SubSeq(s, n + 1, Len(s)))

\* C16: for every pasted text the tokenizer gives the text between each pair
\* of double quotes as one token, word for word, and the text outside the
\* pairs as its longest runs without white space; quotes that do not pair up
\* are plain text and nothing fails.
C16_QuoteRoundTrip ==
  (trail # <<>> /\ LastRun.op = "paste")
    => LastRun.tokens = QuoteTokens(LastRun.text)

\* A pair of double quotes that opens the text or follows white space or
\* another closed pair is given as one token, word for word.
QuotedAtTokenStart ==
  (trail # <<>> /\ LastRun.op = "paste") =>
    LET s == LastRun.text
        toks == LastRun.tokens
    IN \A i \in 1..Len(s) : \A j \in (i + 2)..Len(s) :
         (/\ s[i] = Q
          /\ s[j] = Q
          /\ \A m \in (i + 1)..(j - 1) : s[m] # Q
          /\ \A m \in 1..(i - 1) : s[m] = SP)
           => toks # <<>> /\ toks[1] = SubSeq(s, i + 1, j - 1)

\* ----------------------------------------------------- claims: paste, again
\* C17: a paste with k >= 1 document tokens leaves the entries the Collection
\* had where they were, puts the k tokens after them, made absolute, in token
\* order and with repeats, drops the other tokens, and selects the first entry
\* added: the row whose number is the length the Collection had.
C17_AppendOnPaste ==
  [][\A txt \in PasteTexts :
       LET toks == Tokenize(txt)
           docs == DocTokens(cwd, toks)
       IN (on_paste(txt) /\ docs # <<>>) =>
            /\ files' = files \o Normalized(cwd', docs)
            /\ index' = Len(files)]_vars

\* C17 happens: the quoted path in upper case was pasted again, beside a token
\* that is no document; it follows the entry the Collection had, as a second
\* copy, and its row is selected.
C17_Witness ==
  /\ trail # <<>>
  /\ LastRun.op = "paste"
  /\ LastRun.files = <<DocC>>
  /\ LastRun.index = 0
  /\ files = <<DocC, DocC>>
  /\ index = 1
  /\ cwd = D1

\* C18: the working directory changes only in a paste that names a directory
\* that exists, and then to the last directory named: no step of move_up,
\* move_down, save_list, load_list, of a merge or of a paste without such a
\* token changes it or takes it back to an earlier value.
C18_DirectoryChangesOnlyOnPaste ==
  [][cwd' # cwd =>
       \E txt \in PasteTexts \cup DirTexts :
         /\ on_paste(txt)
         /\ DirPositions(cwd, Tokenize(txt)) # {}
         /\ cwd' = AbsPath(cwd, LastDirToken(cwd, Tokenize(txt)))]_vars

\* C18 happens: a paste took the process to /d2, and a save, a load and a
\* whole merge run there since have left it there.
C18_Witness ==
  /\ cwd = D2
  /\ files = <<DocB>>
  /\ saveLabel = <<"Save err: ", "Permission denied">>
  /\ loadLabel = <<"Missing: ", "gone", ".pdf">>
  /\ mergeLabel = <<"Error: ", "Permission denied">>
  /\ Running = {}

\* ---------------------------------------------------------- claims: reorder
\* C19: move_up and move_down never raise, in no state; with no row selected
\* they change neither the Collection nor the selection.
C19_MoveSafeWithoutSelection ==
  [][Last(trail').op \in {"move_up", "move_down"} =>
       /\ app' = "running"
       /\ index = NoneIndex => (files' = files /\ index' = index)]_vars

\* With a row selected, move_up and move_down never raise.
MoveSafeWithSelection ==
  [][(Last(trail').op \in {"move_up", "move_down"} /\ index # NoneIndex)
       => app' = "running"]_vars

\* ------------------------------------------------------ claims: merge status
\* C20: while a merge thread runs, or its result waits to be delivered, the
\* merge button shows Merging...; when none does, it shows a result, Merged: or
\* Error:, or the label of the start.
C20_StatusFollowsJobs ==
  /\ Running # {} => mergeLabel = <<"Merging...">>
  /\ Running = {} => mergeLabel # <<"Merging...">>

\* With no thread running the button never shows Merging....
IdleNeverMerging == Running = {} => mergeLabel # <<"Merging...">>

====
